---- MODULE Spec2Model ----
(***************************************************************************)
(* Model of the log distributor (package main of the distributor service): *)
(* the ingress handler, the fan-out over a worker-slot semaphore, the      *)
(* in-line dispatch loop with retries, the retry queue and its background  *)
(* worker.  Sinks ("analyzers") and emitters are the environment.          *)
(***************************************************************************)
EXTENDS Integers, Sequences, FiniteSets, TLC

VARIABLES
    config,      \* d.config.Analyzers: sequence of AnalyzerConfig, fixed after loadConfig
    sinkUp,      \* environment: sinkUp[id] = the sink with this id answers 200 OK
    msgBudget,   \* environment: log messages the emitters may still send
    hdl,         \* one record per connection to /logs: handler position, status written, batch
    task,        \* one record per ingested message: its dispatch goroutine
    workerPool,  \* len(d.workerPool): worker slots held
    queue,       \* d.queue
    queueMu,     \* d.queueMu: "free" or "worker" (other holders lock and unlock in one step)
    wpc,         \* processQueueWorker position: "sleep" or "cycle"
    wIdx,        \* index into d.queue of the entry the cycle handles next
    newQueue,    \* newQueue of the running cycle
    clock,       \* time.Now() readings
    qstat,       \* the latest answer of GET /queue; served = parity of the requests served
    proc         \* the process: pc = "load", "running" or "exited"; file = the config file read

vars == <<config, sinkUp, msgBudget, hdl, task, workerPool, queue,
          queueMu, wpc, wIdx, newQueue, clock, qstat, proc>>

-----------------------------------------------------------------------------
(* Bounds of the model *)

NumMsgs == 1        \* messages the emitters send in all
NumReq == 1         \* connections to /logs served at a time
MaxRetry == 1       \* largest retry_count of a configured analyzer
DrawScale == 2      \* rand.Float64() * totalWeight is drawn in steps of 1/DrawScale
BackoffRetry == 3   \* retry_count of the analyzer in the backoff specification
QueueMsgs == 1      \* messages sent in the specifications of the retry queue
MaxWeight == 2      \* largest weight in the specification of the selection
CycleMsgs == 2      \* messages sent in the specification of the queue cycle

(* Program constants *)

maxWorkers == 10
StatusOK == 200
StatusBadRequest == 400
StatusMethodNotAllowed == 405
StatusTooManyRequests == 429

-----------------------------------------------------------------------------
(* Configuration *)

SinkIds == {"A", "B"}

\* Configurations loadConfig accepts: at least one analyzer, total weight > 0.
\* retry_count and endpoint are not validated: retry_count may be negative and
\* the endpoint may be a string http.NewRequestWithContext rejects ("bad").
ConfigSet ==
    { << [ID |-> "A", Enabled |-> TRUE, Weight |-> 1, Endpoint |-> "ok", RetryCount |-> ra],
         [ID |-> "B", Enabled |-> TRUE, Weight |-> 2, Endpoint |-> "ok", RetryCount |-> 0] >> :
        ra \in (-1)..MaxRetry }
    \cup
    { << [ID |-> "A", Enabled |-> TRUE, Weight |-> 1, Endpoint |-> "ok", RetryCount |-> 0],
         [ID |-> "B", Enabled |-> TRUE, Weight |-> 2, Endpoint |-> "bad", RetryCount |-> 0] >> }

\* the port of the example configurations
ExamplePort == 8080

\* the process after loadConfig accepted a file with these analyzers
Loaded(analyzers) ==
    [pc |-> "running", file |-> [Port |-> ExamplePort, Analyzers |-> analyzers]]

\* models.AnalyzerConfig{}: the zero value
NoAnalyzer == [ID |-> "", Enabled |-> FALSE, Weight |-> 0, Endpoint |-> "",
               RetryCount |-> 0]

RECURSIVE SumWeights(_)
SumWeights(as) ==
    IF as = <<>> THEN 0 ELSE Head(as).Weight + SumWeights(Tail(as))

\* the values rand.Float64() * totalWeight can take, in units of 1/DrawScale;
\* the product is 0 for a total weight of 0 and lies in (totalWeight, 0] for a
\* negative one
Draws(as) ==
    LET total == DrawScale * SumWeights(as)
    IN  IF total > 0 THEN 0..(total - 1)
        ELSE IF total = 0 THEN {0}
        ELSE (total + 1)..0

\* mutant: the total weight is not validated
loadConfigNoWeightCheck(file) ==
    IF file.Port <= 0
    THEN [err |-> "invalid port number", Analyzers |-> <<>>]
    ELSE IF Len(file.Analyzers) = 0
    THEN [err |-> "no analyzers configured", Analyzers |-> <<>>]
    ELSE [err |-> "", Analyzers |-> file.Analyzers]

\* loadConfig on a file that was read and parsed: its error, or the analyzers
loadConfig(file) ==
    IF file.Port <= 0
    THEN [err |-> "invalid port number", Analyzers |-> <<>>]
    ELSE IF Len(file.Analyzers) = 0
    THEN [err |-> "no analyzers configured", Analyzers |-> <<>>]
    ELSE IF SumWeights(file.Analyzers) <= 0
    THEN [err |-> "no analyzers with positive weights", Analyzers |-> <<>>]
    ELSE [err |-> "", Analyzers |-> file.Analyzers]

\* mutant: the walk counts the analyzers instead of adding up their weights
WalkUnweighted(as, r, i, currentWeight) ==
    LET k == IF r <= 0 THEN 1 ELSE (r + DrawScale - 1) \div DrawScale
    IN  IF k <= Len(as) THEN as[k] ELSE as[1]

\* mutant: the running sum must exceed the draw
RECURSIVE WalkStrict(_, _, _, _)
WalkStrict(as, r, i, currentWeight) ==
    IF i > Len(as) THEN as[1]
    ELSE LET w == currentWeight + as[i].Weight
         IN  IF r < DrawScale * w THEN as[i] ELSE WalkStrict(as, r, i + 1, w)

\* the weighted walk shared by selectAnalyzer and selectAlternativeAnalyzer
RECURSIVE Walk(_, _, _, _)
Walk(as, r, i, currentWeight) ==
    IF i > Len(as) THEN as[1]
    ELSE LET w == currentWeight + as[i].Weight
         IN  IF r <= DrawScale * w THEN as[i] ELSE Walk(as, r, i + 1, w)

\* mutant: the older selectAnalyzer, which chooses among the enabled analyzers
selectAnalyzerEnabledOnly(r) ==
    LET enabledAnalyzers == SelectSeq(config, LAMBDA a : a.Enabled)
    IN  IF enabledAnalyzers = <<>> THEN NoAnalyzer
        ELSE Walk(enabledAnalyzers, r, 1, 0)

selectAnalyzer(r) == Walk(config, r, 1, 0)

\* mutant: the tried analyzers are not filtered out
CandidatesUnfiltered(tried) == config

\* the analyzers selectAlternativeAnalyzer chooses among
Candidates(tried) == SelectSeq(config, LAMBDA a : a.ID \notin tried)

\* mutant: no alternative is looked for once an analyzer was tried
selectAlternativeAnalyzerGivesUp(tried, r) ==
    IF tried # {} THEN NoAnalyzer
    ELSE Walk(Candidates(tried), r, 1, 0)

\* mutant: without candidates the first configured analyzer is returned
selectAlternativeAnalyzerFallsBack(tried, r) ==
    IF Candidates(tried) = <<>> THEN config[1]
    ELSE Walk(Candidates(tried), r, 1, 0)

selectAlternativeAnalyzer(tried, r) ==
    IF Candidates(tried) = <<>> THEN NoAnalyzer
    ELSE Walk(Candidates(tried), r, 1, 0)

\* draws for selectAlternativeAnalyzer; no draw is made without candidates
AltDraws(tried) ==
    IF Candidates(tried) = <<>> THEN {0} ELSE Draws(Candidates(tried))

-----------------------------------------------------------------------------
(* Sinks *)

\* (resp, err) of client.Do: err = TRUE is a transport error or a timeout
Resp(code) == [err |-> FALSE, StatusCode |-> code]
NetErr == [err |-> TRUE, StatusCode |-> 0]
NoResp == [err |-> FALSE, StatusCode |-> 0]

FailResponses == {NetErr, Resp(422), Resp(StatusTooManyRequests), Resp(500)}

\* what a POST to the sink can return now
Responses(id) == IF sinkUp[id] THEN {Resp(StatusOK)} ELSE FailResponses

\* http.NewRequestWithContext fails on an endpoint that is no URL
NewRequestFails(a) == a.Endpoint # "ok"

-----------------------------------------------------------------------------
(* Ingress: handleLogPacket and distributeLogMessagesParallel *)

Methods == {"POST", "GET"}

\* a request body: ok = Decode returns no error; n = messages Decode left in the
\* packet (a body with a mistyped field still fills the fields before it)
Bodies == {[ok |-> o, n |-> k] : o \in BOOLEAN, k \in 0..msgBudget}

\* mutant: the decode check inverted
IngressStatusInverted(method, body) ==
    IF method # "POST" THEN StatusMethodNotAllowed
    ELSE IF body.ok THEN StatusBadRequest
    ELSE StatusOK

\* status handleLogPacket writes
IngressStatus(method, body) ==
    IF method # "POST" THEN StatusMethodNotAllowed
    ELSE IF ~body.ok THEN StatusBadRequest
    ELSE StatusOK

\* mutant: the method check does not return
AcceptedAnyMethod(method, body) == body.ok

\* whether handleLogPacket reaches distributeLogMessagesParallel
Accepted(method, body) == method = "POST" /\ body.ok

\* a dispatch goroutine.  pc, analyzer, attempt are the goroutine's position and
\* locals; the other fields are history: posts = in-line POSTs made, psinks = the
\* sinks they went to, last = the latest answer, nretry = answers that were a
\* transport error, 429 or 5xx, sleeps = the backoffs slept, outcome = how
\* distributeLogMessage returned, enq = calls of enqueueFailedMessage (the
\* failed analyzer of each), qposts = sinks the queue worker POSTed the message
\* to, qok = 200 answers to those
NewTask == [pc |-> "acquire", analyzer |-> NoAnalyzer, attempt |-> 0, posts |-> 0,
            psinks |-> {}, last |-> NoResp, nretry |-> 0, sleeps |-> <<>>,
            outcome |-> "", enq |-> <<>>, qposts |-> <<>>, qok |-> 0]

Unfinished(batch) == {m \in batch : task[m].pc # "done"}

Idle == [pc |-> "idle", method |-> "", ok |-> FALSE, status |-> 0, batch |-> {}]

\* connections that serve no request now; they are interchangeable, and a new
\* request is served on the first of them
FreeConns == {h \in DOMAIN hdl : hdl[h].pc \in {"idle", "returned"}}

\* a request arrives on connection h and runs up to wg.Wait (or to its return)
handleLogPacket(h, method, body) ==
    /\ h \in FreeConns
    /\ \A g \in FreeConns : h <= g
    /\ LET batch == IF Accepted(method, body)
                    THEN (Len(task) + 1)..(Len(task) + body.n) ELSE {}
       IN  /\ hdl' = [hdl EXCEPT ![h] =
                         [pc |-> IF batch = {} THEN "returned" ELSE "wgWait",
                          method |-> method, ok |-> body.ok,
                          status |-> IngressStatus(method, body),
                          batch |-> batch]]
           /\ task' = task \o [i \in 1..Cardinality(batch) |-> NewTask]
           /\ msgBudget' = msgBudget - Cardinality(batch)
    /\ UNCHANGED <<config, qstat, proc, sinkUp, workerPool, queue, queueMu, wpc, wIdx, newQueue,
                   clock>>

\* wg.Wait returns and with it distributeLogMessagesParallel and handleLogPacket
CanReturn(h) == hdl[h].pc = "wgWait" /\ Unfinished(hdl[h].batch) = {}

HandlerReturn(h) ==
    /\ CanReturn(h)
    /\ hdl' = [hdl EXCEPT ![h].pc = "returned", ![h].batch = {}]
    /\ UNCHANGED <<config, qstat, proc, sinkUp, msgBudget, task, workerPool, queue,
                   queueMu, wpc, wIdx, newQueue, clock>>

-----------------------------------------------------------------------------
(* In-line dispatch: distributeLogMessage *)

\* mutant: attempt < RetryCount
LoopPcOffByOne(attempt, a) == IF attempt < a.RetryCount THEN "attempt" ELSE "enqueue"

\* for attempt := ...; attempt <= RetryCount: next position of the loop
LoopPc(attempt, a) == IF attempt <= a.RetryCount THEN "attempt" ELSE "enqueue"

\* mutant: a channel with one slot too many
SlotFreeOffByOne == workerPool <= maxWorkers

\* d.workerPool <- struct{}{} blocks while every slot is taken
SlotFree == workerPool < maxWorkers

\* the goroutine takes a worker slot and distributeLogMessage runs to its first POST
AcquireSlot(m) ==
    /\ task[m].pc = "acquire"
    /\ SlotFree
    /\ \E r \in Draws(config) :
         LET a == selectAnalyzer(r)
         IN  IF a.ID = ""
             THEN /\ task' = [task EXCEPT ![m].pc = "done", ![m].outcome = "noanalyzer"]
                  /\ UNCHANGED workerPool
             ELSE /\ task' = [task EXCEPT ![m].pc = LoopPc(0, a), ![m].analyzer = a]
                  /\ workerPool' = workerPool + 1
    /\ UNCHANGED <<config, qstat, proc, sinkUp, msgBudget, hdl, queue, queueMu, wpc,
                   wIdx, newQueue, clock>>

\* mutant: every status other than 200 is retried
IsClientErrorForgotten(code) == FALSE

\* 4xx other than 429: not retried
IsClientError(code) == code >= 400 /\ code < 500 /\ code # StatusTooManyRequests

\* mutant: the backoff grows by one second per attempt
BackoffLinear(attempt, a) == IF attempt < a.RetryCount THEN <<attempt + 1>> ELSE <<>>

\* backoff slept after a failed attempt, in seconds; none after the last attempt
Backoff(attempt, a) == IF attempt < a.RetryCount THEN <<2 ^ attempt>> ELSE <<>>

\* history only: the answers the specification calls retryable
Retryable(resp) ==
    \/ resp.err
    \/ resp.StatusCode = 429
    \/ resp.StatusCode >= 500 /\ resp.StatusCode <= 599

\* mutant: no return on 200 OK; the answer is handled like a 5xx
AfterPostNoReturnOnOK(t, resp) ==
    LET posted == [t EXCEPT !.posts = @ + 1, !.last = resp,
                            !.psinks = @ \cup {t.analyzer.ID},
                            !.nretry = IF Retryable(resp) THEN @ + 1 ELSE @]
        retry == [posted EXCEPT !.sleeps = @ \o Backoff(t.attempt, t.analyzer),
                                !.attempt = @ + 1,
                                !.pc = LoopPc(t.attempt + 1, t.analyzer)]
    IN  IF resp.err THEN retry
        ELSE IF IsClientError(resp.StatusCode)
        THEN [posted EXCEPT !.pc = "done", !.outcome = "terminal"]
        ELSE retry

\* mutant: a terminal 4xx leaves the loop instead of returning, and falls into
\* the enqueue
AfterPostEnqueuesTerminal(t, resp) ==
    LET posted == [t EXCEPT !.posts = @ + 1, !.last = resp,
                            !.psinks = @ \cup {t.analyzer.ID},
                            !.nretry = IF Retryable(resp) THEN @ + 1 ELSE @]
    IN  IF resp.err
        THEN [posted EXCEPT !.sleeps = @ \o Backoff(t.attempt, t.analyzer),
                            !.attempt = @ + 1,
                            !.pc = LoopPc(t.attempt + 1, t.analyzer)]
        ELSE IF resp.StatusCode = StatusOK
        THEN [posted EXCEPT !.pc = "done", !.outcome = "success"]
        ELSE IF IsClientError(resp.StatusCode)
        THEN [posted EXCEPT !.pc = "enqueue"]
        ELSE [posted EXCEPT !.sleeps = @ \o Backoff(t.attempt, t.analyzer),
                            !.attempt = @ + 1,
                            !.pc = LoopPc(t.attempt + 1, t.analyzer)]

\* how one pass of the loop body ends, given what client.Do returned
AfterPost(t, resp) ==
    LET posted == [t EXCEPT !.posts = @ + 1, !.last = resp,
                            !.psinks = @ \cup {t.analyzer.ID},
                            !.nretry = IF Retryable(resp) THEN @ + 1 ELSE @]
    IN  IF resp.err
        THEN [posted EXCEPT !.sleeps = @ \o Backoff(t.attempt, t.analyzer),
                            !.attempt = @ + 1,
                            !.pc = LoopPc(t.attempt + 1, t.analyzer)]
        ELSE IF resp.StatusCode = StatusOK
        THEN [posted EXCEPT !.pc = "done", !.outcome = "success"]
        ELSE IF IsClientError(resp.StatusCode)
        THEN [posted EXCEPT !.pc = "done", !.outcome = "terminal"]
        ELSE [posted EXCEPT !.sleeps = @ \o Backoff(t.attempt, t.analyzer),
                            !.attempt = @ + 1,
                            !.pc = LoopPc(t.attempt + 1, t.analyzer)]

\* mutant: the slot is not released on the return after a request-creation error
AttemptKeepsSlotOnError(m) ==
    /\ task[m].pc = "attempt"
    /\ IF NewRequestFails(task[m].analyzer)
       THEN /\ task' = [task EXCEPT ![m].pc = "done", ![m].outcome = "reqerror"]
            /\ UNCHANGED workerPool
       ELSE \E resp \in Responses(task[m].analyzer.ID) :
                /\ task' = [task EXCEPT ![m] = AfterPost(task[m], resp)]
                /\ workerPool' = IF task'[m].pc = "done" THEN workerPool - 1
                                                         ELSE workerPool
    /\ UNCHANGED <<config, qstat, proc, sinkUp, msgBudget, hdl, queue, queueMu, wpc,
                   wIdx, newQueue, clock>>

\* one pass of the retry loop: build the request, POST, classify, back off
Attempt(m) ==
    /\ task[m].pc = "attempt"
    /\ IF NewRequestFails(task[m].analyzer)
       THEN task' = [task EXCEPT ![m].pc = "done", ![m].outcome = "reqerror"]
       ELSE \E resp \in Responses(task[m].analyzer.ID) :
                task' = [task EXCEPT ![m] = AfterPost(task[m], resp)]
    /\ workerPool' = IF task'[m].pc = "done" THEN workerPool - 1 ELSE workerPool
    /\ UNCHANGED <<config, qstat, proc, sinkUp, msgBudget, hdl, queue, queueMu, wpc,
                   wIdx, newQueue, clock>>

\* mutant: the in-line failure is not counted as an attempt
NewQueuedMessageZeroAttempts(m, failedAnalyzer, t1, t2) ==
    [LogMessage |-> m, TriedAnalyzers |-> {failedAnalyzer}, Attempts |-> 0,
     LastAttempt |-> t1, QueuedAt |-> t2]

\* the QueuedMessage enqueueFailedMessage builds; its two time.Now() readings
NewQueuedMessage(m, failedAnalyzer, t1, t2) ==
    [LogMessage |-> m, TriedAnalyzers |-> {failedAnalyzer}, Attempts |-> 1,
     LastAttempt |-> t1, QueuedAt |-> t2]

\* mutant: the queue is appended to without taking d.queueMu
EnqueueUnlocked(m) ==
    /\ task[m].pc = "enqueue"
    /\ queue' = Append(queue, NewQueuedMessage(m, task[m].analyzer.ID,
                                               clock + 1, clock + 2))
    /\ clock' = clock + 2
    /\ task' = [task EXCEPT ![m].pc = "done", ![m].outcome = "enqueued",
                            ![m].enq = Append(@, task[m].analyzer.ID)]
    /\ workerPool' = workerPool - 1
    /\ UNCHANGED <<config, qstat, proc, sinkUp, msgBudget, hdl, queueMu, wpc, wIdx,
                   newQueue>>

\* mutant: the new entry is put at the front of the queue
EnqueuePrepends(m) ==
    /\ task[m].pc = "enqueue"
    /\ queueMu = "free"
    /\ queue' = <<NewQueuedMessage(m, task[m].analyzer.ID, clock + 1, clock + 2)>>
                    \o queue
    /\ clock' = clock + 2
    /\ task' = [task EXCEPT ![m].pc = "done", ![m].outcome = "enqueued",
                            ![m].enq = Append(@, task[m].analyzer.ID)]
    /\ workerPool' = workerPool - 1
    /\ UNCHANGED <<config, qstat, proc, sinkUp, msgBudget, hdl, queueMu, wpc, wIdx,
                   newQueue>>

\* mutant: the worker slot is not given back after the enqueue
EnqueueKeepsSlot(m) ==
    /\ task[m].pc = "enqueue"
    /\ queueMu = "free"
    /\ queue' = Append(queue, NewQueuedMessage(m, task[m].analyzer.ID,
                                               clock + 1, clock + 2))
    /\ clock' = clock + 2
    /\ task' = [task EXCEPT ![m].pc = "done", ![m].outcome = "enqueued",
                            ![m].enq = Append(@, task[m].analyzer.ID)]
    /\ workerPool' = workerPool
    /\ UNCHANGED <<config, qstat, proc, sinkUp, msgBudget, hdl, queueMu, wpc, wIdx,
                   newQueue>>

\* mutant: the failed message is appended to the queue twice
EnqueueTwice(m) ==
    /\ task[m].pc = "enqueue"
    /\ queueMu = "free"
    /\ queue' = queue \o
                 << NewQueuedMessage(m, task[m].analyzer.ID, clock + 1, clock + 2),
                    NewQueuedMessage(m, task[m].analyzer.ID, clock + 1, clock + 2) >>
    /\ clock' = clock + 2
    /\ task' = [task EXCEPT ![m].pc = "done", ![m].outcome = "enqueued",
                            ![m].enq = Append(@, task[m].analyzer.ID)]
    /\ workerPool' = workerPool - 1
    /\ UNCHANGED <<config, qstat, proc, sinkUp, msgBudget, hdl, queueMu, wpc, wIdx,
                   newQueue>>

\* enqueueFailedMessage under d.queueMu, then distributeLogMessage returns
Enqueue(m) ==
    /\ task[m].pc = "enqueue"
    /\ queueMu = "free"
    /\ queue' = Append(queue, NewQueuedMessage(m, task[m].analyzer.ID,
                                               clock + 1, clock + 2))
    /\ clock' = clock + 2
    /\ task' = [task EXCEPT ![m].pc = "done", ![m].outcome = "enqueued",
                            ![m].enq = Append(@, task[m].analyzer.ID)]
    /\ workerPool' = workerPool - 1
    /\ UNCHANGED <<config, qstat, proc, sinkUp, msgBudget, hdl, queueMu, wpc, wIdx,
                   newQueue>>

-----------------------------------------------------------------------------
(* Retry queue worker: processQueueWorker *)

\* mutant: the worker waits for a slot of the dispatch semaphore
WorkerLockGated ==
    /\ wpc = "sleep"
    /\ queueMu = "free"
    /\ SlotFree
    /\ IF Len(queue) = 0
       THEN UNCHANGED <<queueMu, wpc, wIdx, newQueue>>
       ELSE /\ queueMu' = "worker"
            /\ wpc' = "cycle"
            /\ wIdx' = 1
            /\ newQueue' = <<>>
    /\ UNCHANGED <<config, qstat, proc, sinkUp, msgBudget, hdl, task, workerPool,
                   queue, clock>>

\* mutant: on an empty queue the worker goes back to sleep without unlocking
WorkerLockKeepsMutexOnEmpty ==
    /\ wpc = "sleep"
    /\ queueMu = "free"
    /\ IF Len(queue) = 0
       THEN /\ queueMu' = "worker"
            /\ UNCHANGED <<wpc, wIdx, newQueue>>
       ELSE /\ queueMu' = "worker"
            /\ wpc' = "cycle"
            /\ wIdx' = 1
            /\ newQueue' = <<>>
    /\ UNCHANGED <<config, qstat, proc, sinkUp, msgBudget, hdl, task, workerPool,
                   queue, clock>>

\* the worker wakes and locks d.queueMu; an empty queue ends the cycle at once
WorkerLock ==
    /\ wpc = "sleep"
    /\ queueMu = "free"
    /\ IF Len(queue) = 0
       THEN UNCHANGED <<queueMu, wpc, wIdx, newQueue>>
       ELSE /\ queueMu' = "worker"
            /\ wpc' = "cycle"
            /\ wIdx' = 1
            /\ newQueue' = <<>>
    /\ UNCHANGED <<config, qstat, proc, sinkUp, msgBudget, hdl, task, workerPool,
                   queue, clock>>

\* mutant: every HTTP answer counts as delivered
tryDeliverQueuedAnyStatus(requestFails, resp) ==
    IF requestFails THEN FALSE ELSE ~resp.err

\* mutant: the 200 OK of the sink is not reported to the worker
tryDeliverQueuedNeverOK(requestFails, resp) == FALSE

\* tryDeliverQueued: TRUE only on 200 OK
tryDeliverQueued(requestFails, resp) ==
    IF requestFails THEN FALSE
    ELSE IF resp.err THEN FALSE
    ELSE resp.StatusCode = StatusOK

\* mutant: the map of tried analyzers is rebuilt with the failed analyzer only
MarkTriedForgets(qm, id, now) ==
    [qm EXCEPT !.TriedAnalyzers = {id}, !.Attempts = @ + 1, !.LastAttempt = now]

\* mutant: the failed attempt is not counted
MarkTriedKeepsAttempts(qm, id, now) ==
    [qm EXCEPT !.TriedAnalyzers = @ \cup {id}, !.LastAttempt = now]

\* mutant: a failed queue attempt stamps the entry as newly queued
MarkTriedRequeues(qm, id, now) ==
    [qm EXCEPT !.TriedAnalyzers = @ \cup {id}, !.Attempts = @ + 1, !.LastAttempt = now,
               !.QueuedAt = now]

\* mutant: the time of the failed attempt is not recorded
MarkTriedKeepsLastAttempt(qm, id, now) ==
    [qm EXCEPT !.TriedAnalyzers = @ \cup {id}, !.Attempts = @ + 1]

\* the entry after a failed queue attempt
MarkTried(qm, id, now) ==
    [qm EXCEPT !.TriedAnalyzers = @ \cup {id}, !.Attempts = @ + 1, !.LastAttempt = now]

\* mutant: a cycle that finds no candidate counts as an attempt
WorkerEntryCountsSkipped ==
    /\ wpc = "cycle"
    /\ LET qm == queue[wIdx]
           last == wIdx = Len(queue)
       IN \E r \in AltDraws(qm.TriedAnalyzers) :
           LET a == selectAlternativeAnalyzer(qm.TriedAnalyzers, r)
           IN  IF a.ID = ""
               THEN LET skipped == [qm EXCEPT !.Attempts = @ + 1,
                                             !.LastAttempt = clock + 1]
                    IN  /\ newQueue' = IF last THEN <<>> ELSE Append(newQueue, skipped)
                        /\ queue' = IF last THEN Append(newQueue, skipped) ELSE queue
                        /\ clock' = clock + 1
                        /\ UNCHANGED task
               ELSE \E resp \in Responses(a.ID) :
                      LET fails == NewRequestFails(a)
                          success == tryDeliverQueued(fails, resp)
                          kept == IF success THEN <<>>
                                  ELSE <<MarkTried(qm, a.ID, clock + 1)>>
                          \* the map of tried analyzers is shared with d.queue[wIdx]
                          aliased == IF success THEN queue
                                     ELSE [queue EXCEPT ![wIdx].TriedAnalyzers =
                                                            @ \cup {a.ID}]
                      IN  /\ newQueue' = IF last THEN <<>> ELSE newQueue \o kept
                          /\ queue' = IF last THEN newQueue \o kept ELSE aliased
                          /\ clock' = IF success THEN clock ELSE clock + 1
                          /\ task' = IF fails THEN task
                                      ELSE [task EXCEPT
                                              ![qm.LogMessage].qposts = Append(@, a.ID),
                                              ![qm.LogMessage].qok =
                                                  IF resp = Resp(StatusOK) THEN @ + 1 ELSE @]
    /\ wIdx' = IF wIdx = Len(queue) THEN 0 ELSE wIdx + 1
    /\ wpc' = IF wIdx = Len(queue) THEN "sleep" ELSE "cycle"
    /\ queueMu' = IF wIdx = Len(queue) THEN "free" ELSE "worker"
    /\ UNCHANGED <<config, qstat, proc, sinkUp, msgBudget, hdl, workerPool>>

\* mutant: a failed POST of the worker is repeated at once on the same sink
WorkerEntryRetries ==
    /\ wpc = "cycle"
    /\ LET qm == queue[wIdx]
           last == wIdx = Len(queue)
       IN \E r \in AltDraws(qm.TriedAnalyzers) :
           LET a == selectAlternativeAnalyzer(qm.TriedAnalyzers, r)
           IN  IF a.ID = ""
               THEN /\ newQueue' = IF last THEN <<>> ELSE Append(newQueue, qm)
                    /\ queue' = IF last THEN Append(newQueue, qm) ELSE queue
                    /\ UNCHANGED <<clock, task>>
               ELSE \E resp \in Responses(a.ID) :
                      LET fails == NewRequestFails(a)
                          success == tryDeliverQueued(fails, resp)
                          kept == IF success THEN <<>>
                                  ELSE <<MarkTried(qm, a.ID, clock + 1)>>
                          \* the map of tried analyzers is shared with d.queue[wIdx]
                          aliased == IF success THEN queue
                                     ELSE [queue EXCEPT ![wIdx].TriedAnalyzers =
                                                            @ \cup {a.ID}]
                      IN  /\ newQueue' = IF last THEN <<>> ELSE newQueue \o kept
                          /\ queue' = IF last THEN newQueue \o kept ELSE aliased
                          /\ clock' = IF success THEN clock ELSE clock + 1
                          /\ task' = IF fails THEN task
                                      ELSE [task EXCEPT
                                              ![qm.LogMessage].qposts =
                                                  IF success THEN Append(@, a.ID)
                                                  ELSE Append(Append(@, a.ID), a.ID),
                                              ![qm.LogMessage].qok =
                                                  IF resp = Resp(StatusOK) THEN @ + 1 ELSE @]
    /\ wIdx' = IF wIdx = Len(queue) THEN 0 ELSE wIdx + 1
    /\ wpc' = IF wIdx = Len(queue) THEN "sleep" ELSE "cycle"
    /\ queueMu' = IF wIdx = Len(queue) THEN "free" ELSE "worker"
    /\ UNCHANGED <<config, qstat, proc, sinkUp, msgBudget, hdl, workerPool>>

\* the worker handles d.queue[wIdx]; after the last entry it replaces the queue
\* and unlocks
WorkerEntry ==
    /\ wpc = "cycle"
    /\ LET qm == queue[wIdx]
           last == wIdx = Len(queue)
       IN \E r \in AltDraws(qm.TriedAnalyzers) :
           LET a == selectAlternativeAnalyzer(qm.TriedAnalyzers, r)
           IN  IF a.ID = ""
               THEN /\ newQueue' = IF last THEN <<>> ELSE Append(newQueue, qm)
                    /\ queue' = IF last THEN Append(newQueue, qm) ELSE queue
                    /\ UNCHANGED <<clock, task>>
               ELSE \E resp \in Responses(a.ID) :
                      LET fails == NewRequestFails(a)
                          success == tryDeliverQueued(fails, resp)
                          kept == IF success THEN <<>>
                                  ELSE <<MarkTried(qm, a.ID, clock + 1)>>
                          \* the map of tried analyzers is shared with d.queue[wIdx]
                          aliased == IF success THEN queue
                                     ELSE [queue EXCEPT ![wIdx].TriedAnalyzers =
                                                            @ \cup {a.ID}]
                      IN  /\ newQueue' = IF last THEN <<>> ELSE newQueue \o kept
                          /\ queue' = IF last THEN newQueue \o kept ELSE aliased
                          /\ clock' = IF success THEN clock ELSE clock + 1
                          /\ task' = IF fails THEN task
                                      ELSE [task EXCEPT
                                              ![qm.LogMessage].qposts = Append(@, a.ID),
                                              ![qm.LogMessage].qok =
                                                  IF resp = Resp(StatusOK) THEN @ + 1 ELSE @]
    /\ wIdx' = IF wIdx = Len(queue) THEN 0 ELSE wIdx + 1
    /\ wpc' = IF wIdx = Len(queue) THEN "sleep" ELSE "cycle"
    /\ queueMu' = IF wIdx = Len(queue) THEN "free" ELSE "worker"
    /\ UNCHANGED <<config, qstat, proc, sinkUp, msgBudget, hdl, workerPool>>

-----------------------------------------------------------------------------
(* GET /queue: handleQueueStatus *)

\* time.Duration.String() of a whole number of seconds below a minute: "0s", "1s", ...
DurationString(d) == ToString(d) \o "s"

NoStatus == [served |-> 0, queue_size |-> 0, oldest_message_age |-> ""]

\* mutant: the age is reported only when a second entry is queued
QueueStatusOffByOne(q, now) ==
    [queue_size |-> Len(q),
     oldest_message_age |-> IF Len(q) > 1 THEN DurationString(now - q[1].QueuedAt)
                                          ELSE ""]

\* size and oldest as handleQueueStatus computes them under d.queueMu
QueueStatus(q, now) ==
    [queue_size |-> Len(q),
     oldest_message_age |-> IF Len(q) > 0 THEN DurationString(now - q[1].QueuedAt)
                                          ELSE ""]

\* the handler locks d.queueMu, so it waits while a queue cycle runs; time.Since
\* reads the time of the latest reading or later
handleQueueStatus ==
    /\ queueMu = "free"
    /\ \E now \in clock..(clock + 1) :
         LET st == QueueStatus(queue, now)
         IN  qstat' = [served |-> 1 - qstat.served,
                       queue_size |-> st.queue_size,
                       oldest_message_age |-> st.oldest_message_age]
    /\ UNCHANGED <<config, proc, sinkUp, msgBudget, hdl, task, workerPool, queue,
                   queueMu, wpc, wIdx, newQueue, clock>>

-----------------------------------------------------------------------------
(* Environment: a sink goes down or comes back *)

SetSink(s) ==
    /\ sinkUp' = [sinkUp EXCEPT ![s] = ~@]
    /\ UNCHANGED <<config, qstat, proc, msgBudget, hdl, task, workerPool, queue,
                   queueMu, wpc, wIdx, newQueue, clock>>

-----------------------------------------------------------------------------
(* Specification *)

Init ==
    /\ config \in ConfigSet
    /\ sinkUp \in [SinkIds -> BOOLEAN]
    /\ msgBudget = NumMsgs
    /\ hdl = [h \in 1..NumReq |-> Idle]
    /\ task = <<>>
    /\ workerPool = 0
    /\ queue = <<>>
    /\ queueMu = "free"
    /\ wpc = "sleep"
    /\ wIdx = 0
    /\ newQueue = <<>>
    /\ clock = 0
    /\ qstat = NoStatus
    /\ proc = Loaded(config)

Next ==
    \/ \E h \in DOMAIN hdl, method \in Methods, body \in Bodies :
            handleLogPacket(h, method, body)
    \/ \E h \in DOMAIN hdl : HandlerReturn(h)
    \/ \E m \in DOMAIN task : AcquireSlot(m)
    \/ \E m \in DOMAIN task : Attempt(m)
    \/ \E m \in DOMAIN task : Enqueue(m)
    \/ WorkerLock
    \/ WorkerEntry
    \/ \E s \in DOMAIN sinkUp : SetSink(s)

Spec == Init /\ [][Next]_vars

-----------------------------------------------------------------------------
(* Specification of the retry queue with three sinks of weights 1, 2, 1, all *)
(* down when the distributor starts; the environment restarts them.  One     *)
(* connection to /logs.                                                      *)

QConfig ==
    << [ID |-> "A", Enabled |-> TRUE, Weight |-> 1, Endpoint |-> "ok", RetryCount |-> 0],
       [ID |-> "B", Enabled |-> TRUE, Weight |-> 2, Endpoint |-> "ok", RetryCount |-> 0],
       [ID |-> "C", Enabled |-> TRUE, Weight |-> 1, Endpoint |-> "ok", RetryCount |-> 0] >>

InitQ ==
    /\ config = QConfig
    /\ sinkUp = [s \in {"A", "B", "C"} |-> FALSE]
    /\ msgBudget = QueueMsgs
    /\ hdl = <<Idle>>
    /\ task = <<>>
    /\ workerPool = 0
    /\ queue = <<>>
    /\ queueMu = "free"
    /\ wpc = "sleep"
    /\ wIdx = 0
    /\ newQueue = <<>>
    /\ clock = 0
    /\ qstat = NoStatus
    /\ proc = Loaded(config)

\* a sink that is down is started; no sink goes down again
RestartSink(s) == ~sinkUp[s] /\ SetSink(s)

NextQ ==
    \/ \E h \in DOMAIN hdl, method \in Methods, body \in Bodies :
            handleLogPacket(h, method, body)
    \/ \E h \in DOMAIN hdl : HandlerReturn(h)
    \/ \E m \in DOMAIN task : AcquireSlot(m)
    \/ \E m \in DOMAIN task : Attempt(m)
    \/ \E m \in DOMAIN task : Enqueue(m)
    \/ WorkerLock
    \/ WorkerEntry
    \/ \E s \in DOMAIN sinkUp : RestartSink(s)

SpecQ == InitQ /\ [][NextQ]_vars

-----------------------------------------------------------------------------
(* Specification of the retry loop: one sink with several retries, down when *)
(* the distributor starts.                                                   *)

BackoffConfig ==
    << [ID |-> "A", Enabled |-> TRUE, Weight |-> 1, Endpoint |-> "ok", RetryCount |-> BackoffRetry] >>

InitBackoff ==
    /\ config = BackoffConfig
    /\ sinkUp = [s \in {"A"} |-> FALSE]
    /\ msgBudget = NumMsgs
    /\ hdl = [h \in 1..NumReq |-> Idle]
    /\ task = <<>>
    /\ workerPool = 0
    /\ queue = <<>>
    /\ queueMu = "free"
    /\ wpc = "sleep"
    /\ wIdx = 0
    /\ newQueue = <<>>
    /\ clock = 0
    /\ qstat = NoStatus
    /\ proc = Loaded(config)

SpecBackoff == InitBackoff /\ [][Next]_vars

-----------------------------------------------------------------------------
(* Specification of the queue status endpoint: one sink, down when the       *)
(* distributor starts, and a client polling GET /queue.                      *)

StatusConfig ==
    << [ID |-> "A", Enabled |-> TRUE, Weight |-> 1, Endpoint |-> "ok", RetryCount |-> 0] >>

InitStatus ==
    /\ config = StatusConfig
    /\ sinkUp = [s \in {"A"} |-> FALSE]
    /\ msgBudget = QueueMsgs
    /\ hdl = <<Idle>>
    /\ task = <<>>
    /\ workerPool = 0
    /\ queue = <<>>
    /\ queueMu = "free"
    /\ wpc = "sleep"
    /\ wIdx = 0
    /\ newQueue = <<>>
    /\ clock = 0
    /\ qstat = NoStatus
    /\ proc = Loaded(config)

NextStatus == Next \/ handleQueueStatus

SpecStatus == InitStatus /\ [][NextStatus]_vars

-----------------------------------------------------------------------------
(* Specification of the start of the process: main reads a config file,      *)
(* loadConfig validates it, and the server runs if it was accepted.  The     *)
(* sinks are healthy.                                                        *)

Ports == {-1, 0, ExamplePort}

Weights == {-1, 0, 1, 2}

FileAnalyzer(id, w, e) ==
    [ID |-> id, Enabled |-> e, Weight |-> w, Endpoint |-> "ok", RetryCount |-> 0]

\* config files with no, one or two analyzers
FileSet ==
    {[Port |-> p, Analyzers |-> as] :
        p \in Ports,
        as \in {<<>>}
             \cup {<<FileAnalyzer("A", w, e)>> : w \in Weights, e \in BOOLEAN}
             \cup {<<FileAnalyzer("A", w[1], e[1]), FileAnalyzer("B", w[2], e[2])>> :
                      w \in Weights \X Weights, e \in BOOLEAN \X BOOLEAN}}

\* main: loadConfig, then log.Fatalf or NewDistributorServer and Start
main ==
    /\ proc.pc = "load"
    /\ LET res == loadConfig(proc.file)
       IN  IF res.err # ""
           THEN /\ proc' = [proc EXCEPT !.pc = "exited"]
                /\ UNCHANGED config
           ELSE /\ proc' = [proc EXCEPT !.pc = "running"]
                /\ config' = res.Analyzers
    /\ UNCHANGED <<sinkUp, msgBudget, hdl, task, workerPool, queue, queueMu,
                   wpc, wIdx, newQueue, clock, qstat>>

InitLoad ==
    /\ proc \in {[pc |-> "load", file |-> f] : f \in FileSet}
    /\ config = <<>>
    /\ sinkUp = [s \in SinkIds |-> TRUE]
    /\ msgBudget = NumMsgs
    /\ hdl = [h \in 1..NumReq |-> Idle]
    /\ task = <<>>
    /\ workerPool = 0
    /\ queue = <<>>
    /\ queueMu = "free"
    /\ wpc = "sleep"
    /\ wIdx = 0
    /\ newQueue = <<>>
    /\ clock = 0
    /\ qstat = NoStatus

NextLoad ==
    \/ main
    \/ /\ proc.pc = "running"
       /\ \/ \E h \in DOMAIN hdl, method \in Methods, body \in Bodies :
                 handleLogPacket(h, method, body)
          \/ \E h \in DOMAIN hdl : HandlerReturn(h)
          \/ \E m \in DOMAIN task : AcquireSlot(m)
          \/ \E m \in DOMAIN task : Attempt(m)

SpecLoad == InitLoad /\ [][NextLoad]_vars

-----------------------------------------------------------------------------
(* Specification of the weighted selection: three sinks of every combination *)
(* of weights 1..MaxWeight, all down when the distributor starts and         *)
(* restarted by the environment; one message is sent.                        *)

SelectConfigs ==
    { << FileAnalyzer("A", w[1], TRUE), FileAnalyzer("B", w[2], TRUE),
         FileAnalyzer("C", w[3], TRUE) >> :
        w \in (1..MaxWeight) \X (1..MaxWeight) \X (1..MaxWeight) }

InitSelect ==
    /\ config \in SelectConfigs
    /\ sinkUp = [s \in {"A", "B", "C"} |-> FALSE]
    /\ msgBudget = 1
    /\ hdl = <<Idle>>
    /\ task = <<>>
    /\ workerPool = 0
    /\ queue = <<>>
    /\ queueMu = "free"
    /\ wpc = "sleep"
    /\ wIdx = 0
    /\ newQueue = <<>>
    /\ clock = 0
    /\ qstat = NoStatus
    /\ proc = Loaded(config)

SpecSelect == InitSelect /\ [][NextQ]_vars

-----------------------------------------------------------------------------
(* Specification of the fan-out under load: more messages than worker slots, *)
(* two connections, one healthy sink.                                        *)

CapMsgs == maxWorkers + 1

CapConfig == << [ID |-> "A", Enabled |-> TRUE, Weight |-> 1, Endpoint |-> "ok", RetryCount |-> 0] >>

\* a packet of one message, then a packet of as many messages as there are
\* worker slots
CapBodies ==
    {[ok |-> TRUE, n |-> k] : k \in {IF msgBudget = CapMsgs THEN 1 ELSE msgBudget} \ {0}}

InitCap ==
    /\ config = CapConfig
    /\ sinkUp = [s \in SinkIds |-> TRUE]
    /\ msgBudget = CapMsgs
    /\ hdl = <<Idle, Idle>>
    /\ task = <<>>
    /\ workerPool = 0
    /\ queue = <<>>
    /\ queueMu = "free"
    /\ wpc = "sleep"
    /\ wIdx = 0
    /\ newQueue = <<>>
    /\ clock = 0
    /\ qstat = NoStatus
    /\ proc = Loaded(config)

NextCap ==
    \/ \E h \in DOMAIN hdl, body \in CapBodies : handleLogPacket(h, "POST", body)
    \/ \E h \in DOMAIN hdl : HandlerReturn(h)
    \/ \E m \in DOMAIN task : AcquireSlot(m)
    \/ \E m \in DOMAIN task : Attempt(m)

SpecCap == InitCap /\ [][NextCap]_vars

-----------------------------------------------------------------------------
(* Specification of the queue cycle over several entries: two sinks without  *)
(* in-line retry, both down at the start and restarted at any time, one      *)
(* connection and CycleMsgs messages in well-formed packets.                 *)

CycleConfig ==
    << [ID |-> "A", Enabled |-> TRUE, Weight |-> 1, Endpoint |-> "ok", RetryCount |-> 0],
       [ID |-> "B", Enabled |-> TRUE, Weight |-> 2, Endpoint |-> "ok", RetryCount |-> 0] >>

InitCycle ==
    /\ config = CycleConfig
    /\ sinkUp = [s \in SinkIds |-> FALSE]
    /\ msgBudget = CycleMsgs
    /\ hdl = <<Idle>>
    /\ task = <<>>
    /\ workerPool = 0
    /\ queue = <<>>
    /\ queueMu = "free"
    /\ wpc = "sleep"
    /\ wIdx = 0
    /\ newQueue = <<>>
    /\ clock = 0
    /\ qstat = NoStatus
    /\ proc = Loaded(config)

\* a well-formed packet of at least one message
CycleBodies == {[ok |-> TRUE, n |-> k] : k \in 1..msgBudget}

NextCycle ==
    \/ \E h \in DOMAIN hdl, body \in CycleBodies : handleLogPacket(h, "POST", body)
    \/ \E h \in DOMAIN hdl : HandlerReturn(h)
    \/ \E m \in DOMAIN task : AcquireSlot(m)
    \/ \E m \in DOMAIN task : Attempt(m)
    \/ \E m \in DOMAIN task : Enqueue(m)
    \/ WorkerLock
    \/ WorkerEntry
    \/ \E s \in DOMAIN sinkUp : RestartSink(s)

SpecCycle == InitCycle /\ [][NextCycle]_vars

-----------------------------------------------------------------------------
(* Specification of the accesses to the retry queue: one sink that stays     *)
(* down, one connection, CycleMsgs messages in well-formed packets, and      *)
(* GET /queue polled at any time.                                            *)

InitMutex ==
    /\ config = StatusConfig
    /\ sinkUp = [s \in {"A"} |-> FALSE]
    /\ msgBudget = CycleMsgs
    /\ hdl = <<Idle>>
    /\ task = <<>>
    /\ workerPool = 0
    /\ queue = <<>>
    /\ queueMu = "free"
    /\ wpc = "sleep"
    /\ wIdx = 0
    /\ newQueue = <<>>
    /\ clock = 0
    /\ qstat = NoStatus
    /\ proc = Loaded(config)

NextMutex ==
    \/ \E h \in DOMAIN hdl, body \in CycleBodies : handleLogPacket(h, "POST", body)
    \/ \E h \in DOMAIN hdl : HandlerReturn(h)
    \/ \E m \in DOMAIN task : AcquireSlot(m)
    \/ \E m \in DOMAIN task : Attempt(m)
    \/ \E m \in DOMAIN task : Enqueue(m)
    \/ WorkerLock
    \/ WorkerEntry
    \/ handleQueueStatus

SpecMutex == InitMutex /\ [][NextMutex]_vars

-----------------------------------------------------------------------------
(* Specification of the queue worker beside a saturated semaphore: sink A    *)
(* takes all in-line traffic and is down for a first packet of one message;  *)
(* sink B, of weight 0, is chosen by the queue worker only and is healthy.   *)
(* After A is restarted a second packet brings one message more than there   *)
(* are worker slots.  The dispatch goroutines of a packet are                *)
(* interchangeable, and the specification runs them in the order of their    *)
(* messages.                                                                 *)

CapQConfig ==
    << [ID |-> "A", Enabled |-> TRUE, Weight |-> 1, Endpoint |-> "ok", RetryCount |-> 0],
       [ID |-> "B", Enabled |-> TRUE, Weight |-> 0, Endpoint |-> "ok", RetryCount |-> 0] >>

\* a packet of one message, then a packet of CapMsgs messages
CapQBodies ==
    {[ok |-> TRUE, n |-> k] : k \in {IF task = <<>> THEN 1 ELSE msgBudget} \ {0}}

InitCapQ ==
    /\ config = CapQConfig
    /\ sinkUp = [s \in SinkIds |-> s = "B"]
    /\ msgBudget = CapMsgs + 1
    /\ hdl = <<Idle>>
    /\ task = <<>>
    /\ workerPool = 0
    /\ queue = <<>>
    /\ queueMu = "free"
    /\ wpc = "sleep"
    /\ wIdx = 0
    /\ newQueue = <<>>
    /\ clock = 0
    /\ qstat = NoStatus
    /\ proc = Loaded(config)

NextCapQ ==
    \/ \E h \in DOMAIN hdl, body \in CapQBodies :
            /\ task = <<>> \/ sinkUp["A"]
            /\ handleLogPacket(h, "POST", body)
    \/ \E h \in DOMAIN hdl : HandlerReturn(h)
    \/ \E m \in DOMAIN task :
            /\ \A k \in 1..(m - 1) : task[k].pc # "acquire"
            /\ AcquireSlot(m)
    \/ \E m \in DOMAIN task :
            /\ \A k \in 1..(m - 1) : task[k].pc # "attempt"
            /\ Attempt(m)
    \/ \E m \in DOMAIN task : Enqueue(m)
    \/ WorkerLock
    \/ WorkerEntry
    \/ RestartSink("A")

SpecCapQ == InitCapQ /\ [][NextCapQ]_vars

-----------------------------------------------------------------------------
(* Specification of the worker pool under a failing sink: sink A takes all   *)
(* in-line traffic and refuses every connection; sink B, of weight 0, is     *)
(* chosen by the queue worker only and is healthy.  One packet brings two    *)
(* messages more than there are worker slots.  The dispatch goroutines of a  *)
(* packet are interchangeable, and the specification runs them in the order  *)
(* of their messages.  SpecLive adds the fairness of the Go scheduler: a     *)
(* runnable goroutine runs, a POST ends (the client has a timeout), and a    *)
(* goroutine parked on the channel or on the mutex is woken when its turn    *)
(* comes.                                                                    *)

\* two messages more than there are worker slots
PoolMsgs == maxWorkers + 2

PoolConfig ==
    << [ID |-> "A", Enabled |-> TRUE, Weight |-> 1, Endpoint |-> "ok", RetryCount |-> 1],
       [ID |-> "B", Enabled |-> TRUE, Weight |-> 0, Endpoint |-> "ok", RetryCount |-> 0] >>

InitPool ==
    /\ config = PoolConfig
    /\ sinkUp = [s \in SinkIds |-> s = "B"]
    /\ msgBudget = PoolMsgs
    /\ hdl = <<Idle>>
    /\ task = <<>>
    /\ workerPool = 0
    /\ queue = <<>>
    /\ queueMu = "free"
    /\ wpc = "sleep"
    /\ wIdx = 0
    /\ newQueue = <<>>
    /\ clock = 0
    /\ qstat = NoStatus
    /\ proc = Loaded(config)

\* the packet of PoolMsgs messages
PoolPacket ==
    /\ msgBudget = PoolMsgs
    /\ \E h \in DOMAIN hdl : handleLogPacket(h, "POST", [ok |-> TRUE, n |-> PoolMsgs])

PoolReturn == \E h \in DOMAIN hdl : HandlerReturn(h)

PoolAcquire(m) ==
    /\ m \in DOMAIN task
    /\ \A k \in 1..(m - 1) : task[k].pc # "acquire"
    /\ AcquireSlot(m)

\* a POST to the sink that refuses connections
PoolAttempt(m) ==
    /\ m \in DOMAIN task
    /\ \A k \in 1..(m - 1) : task[k].pc # "attempt"
    /\ Attempt(m)
    /\ task'[m].last = NetErr

PoolEnqueue(m) ==
    /\ m \in DOMAIN task
    /\ \A k \in 1..(m - 1) : task[k].pc # "enqueue"
    /\ Enqueue(m)

\* in each of the three, the task that is next in the order of the messages
PoolAcquireNext == \E m \in 1..PoolMsgs : PoolAcquire(m)

PoolAttemptNext == \E m \in 1..PoolMsgs : PoolAttempt(m)

PoolEnqueueNext == \E m \in 1..PoolMsgs : PoolEnqueue(m)

NextPool ==
    \/ PoolPacket
    \/ PoolReturn
    \/ PoolAcquireNext
    \/ PoolAttemptNext
    \/ PoolEnqueueNext
    \/ WorkerLock
    \/ WorkerEntry

SpecPool == InitPool /\ [][NextPool]_vars

\* the channel and the mutex wake their waiters in turn (strong fairness);
\* everything else only has to run when it can (weak fairness)
FairPool ==
    /\ WF_vars(PoolReturn)
    /\ SF_vars(PoolAcquireNext)
    /\ WF_vars(PoolAttemptNext)
    /\ SF_vars(PoolEnqueueNext)
    /\ WF_vars(WorkerLock)
    /\ WF_vars(WorkerEntry)

SpecLive == SpecPool /\ FairPool

\* the same system with GET /queue polled at any time
NextLock == NextPool \/ handleQueueStatus

SpecLock == InitPool /\ [][NextLock]_vars

-----------------------------------------------------------------------------
(* Properties *)

\* the retry queue as the worker sees it: during a cycle, the entries already
\* carried into newQueue and the entries of d.queue not yet handled
PendingQueue ==
    IF wpc = "cycle" THEN newQueue \o SubSeq(queue, wIdx, Len(queue)) ELSE queue

Pending(m) == \E i \in DOMAIN PendingQueue : PendingQueue[i].LogMessage = m

InQueue(m) == \E i \in DOMAIN queue : queue[i].LogMessage = m

AllIds == {config[i].ID : i \in DOMAIN config}

\* a sink answered 200 OK for the message, in line or to the queue worker
Answered200(m) == task[m].last = Resp(200) \/ task[m].qok > 0

\* the latest in-line answer was a 4xx other than 429
Terminal4xx(m) ==
    /\ ~task[m].last.err
    /\ task[m].last.StatusCode \in 400..499
    /\ task[m].last.StatusCode # 429

\* the step is the worker handling the entry d.queue[wIdx]
WorkerHandles(m) == wpc = "cycle" /\ wIdx' # wIdx /\ queue[wIdx].LogMessage = m

\* C1: an entry whose tried_sinks holds every configured sink stays queued while
\* no sink answers 200, and once a sink answers 200 again the worker's next
\* handling of the entry delivers it and removes it from the queue.
C1_RestoredSinkDelivers ==
    [][\A m \in DOMAIN task :
         (WorkerHandles(m) /\ AllIds \subseteq queue[wIdx].TriedAnalyzers) =>
            IF \E s \in AllIds : sinkUp[s]
            THEN task'[m].qok = task[m].qok + 1 /\ ~Pending(m)'
            ELSE Pending(m)']_vars

\* C2: a message whose in-line dispatch has finished is in exactly one of three
\* states: a sink answered 200 OK for it, it ended on a 4xx other than 429, or
\* it is an entry of the retry queue.
C2_NoSilentDrop ==
    \A m \in DOMAIN task :
        task[m].pc = "done" =>
            /\ Answered200(m) \/ Terminal4xx(m) \/ Pending(m)
            /\ ~(Answered200(m) /\ Terminal4xx(m))
            /\ ~(Answered200(m) /\ Pending(m))
            /\ ~(Terminal4xx(m) /\ Pending(m))

\* C3: an entry leaves the retry queue only in the step in which the worker
\* handles it and a sink answers 200 OK to the worker's POST of that message.
C3_LeavesQueueOnlyOn200 ==
    [][\A m \in DOMAIN task :
         (Pending(m) /\ ~Pending(m)') =>
            /\ WorkerHandles(m)
            /\ task'[m].qok = task[m].qok + 1]_vars

C3_Witness ==
    \E m \in DOMAIN task :
        /\ task[m].enq # <<>>
        /\ task[m].qok = 1
        /\ ~Pending(m)
        /\ wpc = "sleep"

\* C4: after a 4xx answer other than 429 to an in-line attempt the dispatch has
\* returned, no other sink was or is tried, in line or by the queue worker, and
\* the message was not enqueued.
C4_ClientErrorIsTerminal ==
    \A m \in DOMAIN task :
        (task[m].posts > 0 /\ Terminal4xx(m)) =>
            /\ task[m].pc = "done"
            /\ task[m].psinks = {task[m].analyzer.ID}
            /\ task[m].enq = <<>>
            /\ ~InQueue(m) /\ ~Pending(m)
            /\ task[m].qposts = <<>>

C4_Witness ==
    \E m \in DOMAIN task :
        /\ task[m].last = Resp(422)
        /\ task[m].posts = 2
        /\ task[m].pc = "done"

\* C5: a dispatch whose every attempt ended in a transport error, 429 or 5xx
\* made exactly retry_count + 1 attempts, all to the selected sink, and then
\* enqueued the message exactly once, with tried_sinks = { that sink }.
C5_ExhaustionEnqueuesOnce ==
    \A m \in DOMAIN task :
        /\ task[m].pc = "enqueue" => task[m].posts = task[m].analyzer.RetryCount + 1
        /\ ( /\ task[m].pc = "done"
             /\ task[m].outcome \notin {"reqerror", "noanalyzer"}
             /\ task[m].nretry = task[m].posts ) =>
                /\ task[m].posts = task[m].analyzer.RetryCount + 1
                /\ task[m].psinks \subseteq {task[m].analyzer.ID}
                /\ task[m].enq = <<task[m].analyzer.ID>>
                /\ \A i \in DOMAIN PendingQueue :
                      (PendingQueue[i].LogMessage = m /\ PendingQueue[i].Attempts = 1) =>
                          PendingQueue[i].TriedAnalyzers = {task[m].analyzer.ID}

C5_Witness ==
    \E m \in DOMAIN task :
        /\ task[m].pc = "done"
        /\ task[m].posts = 2
        /\ task[m].nretry = 2
        /\ InQueue(m)

\* C6: when the sink answers 200 OK on attempt k after k - 1 retryable answers,
\* k <= retry_count + 1, the dispatch has returned at attempt k, and the
\* message is neither enqueued nor posted again.
C6_RetryThenSuccess ==
    \A m \in DOMAIN task :
        (task[m].posts > 0 /\ task[m].last = Resp(200)) =>
            /\ task[m].pc = "done"
            /\ task[m].posts <= task[m].analyzer.RetryCount + 1
            /\ task[m].nretry = task[m].posts - 1
            /\ task[m].psinks = {task[m].analyzer.ID}
            /\ task[m].enq = <<>>
            /\ ~InQueue(m) /\ ~Pending(m)
            /\ task[m].qposts = <<>>

C6_Witness ==
    \E m \in DOMAIN task :
        /\ task[m].posts = 2
        /\ task[m].nretry = 1
        /\ task[m].last = Resp(200)
        /\ task[m].pc = "done"

\* C7: a POST to /logs whose body decodes is answered 200, whatever becomes of
\* its messages downstream.
C7_ParsedPacketGets200 ==
    \A h \in DOMAIN hdl :
        (hdl[h].pc # "idle" /\ hdl[h].method = "POST" /\ hdl[h].ok) =>
            hdl[h].status = 200

C7_Witness ==
    \E h \in DOMAIN hdl :
        /\ hdl[h].pc = "wgWait"
        /\ hdl[h].status = 200
        /\ \E m \in hdl[h].batch : task[m].enq # <<>>

\* C8: a request to /logs that is not a POST is answered 405 and a POST whose
\* body does not decode is answered 400; serving either starts no dispatch
\* task, contacts no sink and leaves the retry queue as it was.
C8_RejectionChangesNothing ==
    [][\A h \in DOMAIN hdl :
         ( /\ hdl'[h] # hdl[h]
           /\ hdl[h].pc # "wgWait"
           /\ ~(hdl'[h].method = "POST" /\ hdl'[h].ok) ) =>
            /\ hdl'[h].pc = "returned"
            /\ hdl'[h].status = IF hdl'[h].method # "POST" THEN 405 ELSE 400
            /\ UNCHANGED <<task, workerPool, queue, newQueue, queueMu, msgBudget>>]_vars

C8_Witness ==
    \E h \in DOMAIN hdl :
        /\ hdl[h].pc = "returned"
        /\ hdl[h].status = 400
        /\ queue # <<>>

\* C9: after a successful parse handleLogPacket returns without waiting for the
\* dispatch of its messages: its return is never held back by an unfinished
\* dispatch task.
C9_HandlerReturnsWithoutWaiting ==
    \A h \in DOMAIN hdl : hdl[h].pc = "wgWait" => ENABLED HandlerReturn(h)

\* dispatch tasks inside distributeLogMessage, each holding a worker slot
Holding == {m \in DOMAIN task : task[m].pc \in {"attempt", "enqueue"}}

\* C10: at most maxWorkers (10) dispatch tasks execute distributeLogMessage at
\* any time, over all the packets being handled.
C10_ConcurrencyCap == Cardinality(Holding) <= 10

C10_Witness ==
    /\ Cardinality(Holding) = 10
    /\ \E m \in DOMAIN task : task[m].pc = "acquire"
    /\ \A h \in DOMAIN hdl : hdl[h].pc = "wgWait"

\* C11: the semaphore holds exactly one slot per dispatch task that is inside
\* distributeLogMessage: a task takes its slot before the dispatch and gives
\* it back on every way out (success, terminal 4xx, enqueue, request-creation
\* error), so with no dispatch running the semaphore is empty.
C11_SlotReleasedOnEveryExit ==
    /\ workerPool = Cardinality(Holding)
    /\ (\A m \in DOMAIN task : task[m].pc \in {"acquire", "done"}) => workerPool = 0

C11_Witness ==
    /\ workerPool = 0
    /\ \E m \in DOMAIN task : task[m].pc = "done" /\ task[m].outcome = "reqerror"

\* C12: the queue worker never POSTs a queued message to a sink that is in the
\* entry's tried_sinks: not to the sink whose in-line retries were exhausted,
\* and not to a sink the worker already POSTed the message to.
C12_WorkerSkipsTriedSinks ==
    [][\A m \in DOMAIN task :
         task'[m].qposts # task[m].qposts =>
            /\ WorkerHandles(m)
            /\ LET s == task'[m].qposts[Len(task'[m].qposts)]
               IN  /\ s \notin queue[wIdx].TriedAnalyzers
                   /\ \A k \in DOMAIN task[m].enq : task[m].enq[k] # s
                   /\ \A k \in DOMAIN task[m].qposts : task[m].qposts[k] # s]_vars

C12_Witness ==
    \E m \in DOMAIN task :
        /\ task[m].enq = <<"A">>
        /\ task[m].qposts = <<"B">>
        /\ task[m].qok = 0
        /\ Pending(m)

\* the tried_sinks of the queue entry of message m
TriedOf(m) ==
    UNION {PendingQueue[i].TriedAnalyzers :
              i \in {j \in DOMAIN PendingQueue : PendingQueue[j].LogMessage = m}}

\* C13: the tried_sinks of every queue entry is a subset of the configured sink
\* ids, and no step removes an element from it while the entry is queued.
C13_TriedSinksGrowWithinConfig ==
    [][/\ \A i \in DOMAIN queue' : queue'[i].TriedAnalyzers \subseteq AllIds
       /\ \A i \in DOMAIN newQueue' : newQueue'[i].TriedAnalyzers \subseteq AllIds
       /\ \A m \in DOMAIN task :
             (Pending(m) /\ Pending(m)') => TriedOf(m) \subseteq TriedOf(m)']_vars

C13_Witness ==
    \E i \in DOMAIN queue :
        /\ queue[i].TriedAnalyzers = {"A", "B"}
        /\ queue[i].Attempts = 2
        /\ wpc = "sleep"

\* the configured analyzers the entry has not tried
Untried(qm) == {config[i] : i \in {j \in DOMAIN config : config[j].ID \notin qm.TriedAnalyzers}}

\* C14: when a sink that was down answers 200 again and is not in the
\* tried_sinks of a queued message, the worker's next handling of the message
\* delivers it and removes it from the queue.
C14_RecoveredSinkDelivers ==
    [][\A m \in DOMAIN task :
         (WorkerHandles(m) /\ \E a \in Untried(queue[wIdx]) : sinkUp[a.ID]) =>
            /\ task'[m].qok = task[m].qok + 1
            /\ ~Pending(m)']_vars

\* C15: a message enqueued after its retries on one sink were exhausted, with
\* every other configured sink answering 200, is delivered by the next queue
\* cycle to one of the other sinks, and a queue that held only this message
\* is empty afterwards.
C15_SingleSinkOutageRecovers ==
    [][\A m \in DOMAIN task :
         ( /\ WorkerHandles(m)
           /\ queue[wIdx].Attempts = 1
           /\ Untried(queue[wIdx]) # {}
           /\ \A a \in Untried(queue[wIdx]) : sinkUp[a.ID] /\ ~NewRequestFails(a) ) =>
            /\ task'[m].qok = task[m].qok + 1
            /\ task'[m].qposts = Append(task[m].qposts,
                                         task'[m].qposts[Len(task'[m].qposts)])
            /\ task'[m].qposts[Len(task'[m].qposts)] \in
                   AllIds \ queue[wIdx].TriedAnalyzers
            /\ ~Pending(m)'
            /\ Len(queue) = 1 => (queue' = <<>> /\ wpc' = "sleep")]_vars

C15_Witness ==
    \E m \in DOMAIN task :
        /\ task[m].enq = <<"B">>
        /\ task[m].qposts \in {<<"A">>, <<"C">>}
        /\ task[m].qok = 1
        /\ queue = <<>>
        /\ wpc = "sleep"

\* C16: the dispatcher has slept 2^n seconds after each failed attempt n that
\* another attempt followed (1 s, 2 s, 4 s, ...), after transport errors and
\* after 429/5xx alike, and has not slept after the last attempt: a task that
\* goes on to enqueue has slept retry_count times.  Durations are in seconds,
\* not in the int64 nanoseconds of time.Duration, which hold 2^n s for n <= 33.
C16_BackoffSchedule ==
    \A m \in DOMAIN task :
        LET t == task[m]
            failed == IF t.pc = "done" /\ t.outcome \in {"success", "terminal"}
                      THEN t.posts - 1 ELSE t.posts
        IN  /\ t.sleeps = [n \in 1..Len(t.sleeps) |-> 2 ^ (n - 1)]
            /\ t.analyzer.RetryCount >= 0 =>
                  Len(t.sleeps) = IF failed < t.analyzer.RetryCount
                                  THEN failed ELSE t.analyzer.RetryCount
            /\ t.analyzer.RetryCount < 0 => t.sleeps = <<>>

C16_Witness ==
    \E m \in DOMAIN task :
        /\ task[m].pc = "done"
        /\ task[m].outcome = "enqueued"
        /\ task[m].posts = 4
        /\ task[m].sleeps = <<1, 2, 4>>

\* C17: every answer of GET /queue is taken with the lock free of the worker,
\* its queue_size is the number of entries of the retry queue at that moment,
\* and its oldest_message_age is the duration since the queued_at of the front
\* entry, or the empty string exactly when the queue is empty.
C17_QueueStatusConsistent ==
    [][qstat' # qstat =>
         /\ queueMu = "free"
         /\ qstat'.queue_size = Len(queue)
         /\ qstat'.oldest_message_age = "" <=> Len(queue) = 0
         /\ Len(queue) > 0 =>
               \E now \in clock..(clock + 1) :
                   /\ now >= queue[1].QueuedAt
                   /\ qstat'.oldest_message_age =
                          DurationString(now - queue[1].QueuedAt)]_vars

C17_Witness ==
    /\ qstat.queue_size = 1
    /\ qstat.oldest_message_age = "1s"
    /\ Len(queue) = 1

\* a file loadConfig has to reject
Rejected(file) ==
    file.Port <= 0 \/ Len(file.Analyzers) = 0 \/ SumWeights(file.Analyzers) <= 0

\* C18: after loadConfig the process has exited, without ever serving, when the
\* port is <= 0, the analyzer list is empty or the weights sum to <= 0; in a
\* running distributor there is at least one sink and the total weight is > 0.
C18_StartupValidation ==
    /\ (proc.pc # "load" /\ Rejected(proc.file)) => proc.pc = "exited"
    /\ proc.pc # "running" =>
          /\ task = <<>>
          /\ \A h \in DOMAIN hdl : hdl[h] = Idle
    /\ proc.pc = "running" =>
          /\ proc.file.Port > 0
          /\ Len(config) >= 1
          /\ SumWeights(config) > 0

C18_Witness ==
    /\ proc.pc = "exited"
    /\ proc.file.Port > 0
    /\ Len(proc.file.Analyzers) = 2
    /\ SumWeights(proc.file.Analyzers) = 0
    /\ proc.file.Analyzers[2].Weight = 1

\* the configuration with every analyzer marked enabled
AllEnabled(analyzers) ==
    [i \in DOMAIN analyzers |-> [analyzers[i] EXCEPT !.Enabled = TRUE]]

\* C20: the enabled field has no effect on the initial selection: every draw
\* selects the sink it would select with all sinks enabled, every sink of
\* positive weight can be selected whatever its enabled value, and no message
\* is left without a sink.
C20_EnabledIsIgnored ==
    proc.pc = "running" =>
        /\ \A r \in Draws(config) :
              /\ selectAnalyzer(r).ID \in AllIds
              /\ selectAnalyzer(r).ID = Walk(AllEnabled(config), r, 1, 0).ID
        /\ \A i \in DOMAIN config :
              config[i].Weight > 0 =>
                  \E r \in Draws(config) : selectAnalyzer(r) = config[i]
        /\ \A m \in DOMAIN task :
              /\ task[m].outcome # "noanalyzer"
              /\ task[m].pc # "acquire" => task[m].analyzer.ID \in AllIds

C20_Witness ==
    /\ \A i \in DOMAIN config : ~config[i].Enabled
    /\ \E m \in DOMAIN task :
          /\ task[m].pc = "done"
          /\ task[m].outcome = "success"
          /\ task[m].analyzer.ID = "B"
          /\ ~task[m].analyzer.Enabled

\* The draw r is uniform over [0, total weight), in units of 1/DrawScale; every
\* point of the cell (r - 1, r) selects what its right end r selects, the
\* cumulative weights being ends of cells, so the number of ends r that select
\* a sink measures the probability of selecting it.
ShareInitial(i) ==
    Cardinality({r \in 1..(DrawScale * SumWeights(config)) :
                    selectAnalyzer(r) = config[i]})

ShareRetry(tried, i) ==
    Cardinality({r \in 1..(DrawScale * SumWeights(Candidates(tried))) :
                    selectAlternativeAnalyzer(tried, r) = Candidates(tried)[i]})

\* sets of tried sinks that leave the queue worker a candidate
TriedSets == {T \in SUBSET AllIds : Candidates(T) # <<>>}

\* C19: with positive weights each candidate sink is selected with probability
\* proportional to its weight among the candidates, for the initial dispatch
\* over all sinks and for the queue retry over the sinks not yet tried:
\* (draws selecting the sink) * (total weight of the candidates)
\* = (its weight) * (number of draws).
C19_SelectionProportionalToWeight ==
    (\A i \in DOMAIN config : config[i].Weight > 0) =>
        /\ \A i \in DOMAIN config :
              ShareInitial(i) * SumWeights(config) =
                  config[i].Weight * (DrawScale * SumWeights(config))
        /\ \A T \in TriedSets : \A i \in DOMAIN Candidates(T) :
              ShareRetry(T, i) * SumWeights(Candidates(T)) =
                  Candidates(T)[i].Weight * (DrawScale * SumWeights(Candidates(T)))

C19_Witness ==
    /\ config[1].Weight = 1 /\ config[2].Weight = 2 /\ config[3].Weight = 1
    /\ ShareInitial(1) = DrawScale /\ ShareInitial(2) = 2 * DrawScale
    /\ ShareInitial(3) = DrawScale
    /\ ShareRetry({"A"}, 1) = 2 * DrawScale /\ ShareRetry({"A"}, 2) = DrawScale
    /\ \E m \in DOMAIN task :
          /\ task[m].enq = <<"A">>
          /\ task[m].qposts = <<"C">>
          /\ task[m].qok = 1

\* the buffer the queue cycle is filling, which replaces d.queue at its end
NewBuffer == IF wpc = "cycle" THEN newQueue ELSE queue

\* C21: in a queue cycle, an entry for which no untried sink exists is carried
\* into the new buffer with tried_sinks, attempts, last_attempt and queued_at
\* unchanged, and no POST is made for it.
C21_NoCandidateNoChange ==
    [][\A m \in DOMAIN task :
         (WorkerHandles(m) /\ Untried(queue[wIdx]) = {}) =>
            /\ NewBuffer' = Append(newQueue, queue[wIdx])
            /\ task'[m].qposts = task[m].qposts
            /\ task'[m].posts = task[m].posts
            /\ clock' = clock]_vars

\* the worker has carried the first entry, tried on every sink, unchanged and
\* goes on to the second one
C21_Witness ==
    /\ wpc = "cycle"
    /\ wIdx = 2
    /\ newQueue = <<queue[1]>>
    /\ queue[1].TriedAnalyzers = AllIds
    /\ queue[1].Attempts = 2
    /\ task[queue[1].LogMessage].qposts # <<>>

\* the step is the worker making a POST for message m that is not answered 200
FailedQueuePost(m) ==
    /\ WorkerHandles(m)
    /\ Len(task'[m].qposts) = Len(task[m].qposts) + 1
    /\ task'[m].qok = task[m].qok

\* C22: when the worker's POST of a queued message to the chosen sink does not
\* return 200 OK, the entry is kept with the chosen sink added to tried_sinks,
\* attempts incremented by exactly 1 and last_attempt updated; the message and
\* queued_at are unchanged.
C22_FailedQueueAttempt ==
    [][\A m \in DOMAIN task :
         FailedQueuePost(m) =>
            LET qm == queue[wIdx]
                chosen == task'[m].qposts[Len(task'[m].qposts)]
                kept == NewBuffer'[Len(NewBuffer')]
            IN  /\ Len(NewBuffer') = Len(newQueue) + 1
                /\ SubSeq(NewBuffer', 1, Len(newQueue)) = newQueue
                /\ chosen \notin qm.TriedAnalyzers
                /\ kept.TriedAnalyzers = qm.TriedAnalyzers \cup {chosen}
                /\ kept.Attempts = qm.Attempts + 1
                /\ kept.LastAttempt > qm.LastAttempt
                /\ kept.LastAttempt > clock
                /\ kept.LogMessage = qm.LogMessage
                /\ kept.QueuedAt = qm.QueuedAt]_vars

\* an entry enqueued after A failed, then refused by B in a queue cycle
C22_Witness ==
    /\ wpc = "sleep"
    /\ \E i \in DOMAIN queue :
          /\ task[queue[i].LogMessage].enq = <<"A">>
          /\ task[queue[i].LogMessage].qposts = <<"B">>
          /\ task[queue[i].LogMessage].qok = 0
          /\ queue[i].Attempts = 2
          /\ queue[i].LastAttempt > queue[i].QueuedAt

QueuedAtOf(m) ==
    {PendingQueue[i].QueuedAt :
        i \in {j \in DOMAIN PendingQueue : PendingQueue[j].LogMessage = m}}

\* C24: queued_at of a queued message is set once, at enqueue, to the time read
\* then, and no later queue cycle or other operation changes it for as long as
\* the entry is in the queue.
C24_QueuedAtSetOnce ==
    [][\A m \in DOMAIN task :
         /\ (~Pending(m) /\ Pending(m)') =>
                /\ task[m].pc = "enqueue"
                /\ \E t \in (clock + 1)..clock' : QueuedAtOf(m)' = {t}
         /\ (Pending(m) /\ Pending(m)') => QueuedAtOf(m)' = QueuedAtOf(m)
         /\ \A i \in DOMAIN queue' :
                queue'[i].LogMessage = m /\ Pending(m) =>
                    QueuedAtOf(m) = {queue'[i].QueuedAt}]_vars

\* the first message was enqueued at time 2 and is still queued with that
\* time after a failed queue attempt and the enqueue of a second message
C24_Witness ==
    /\ Len(queue) = 2
    /\ queue[1].QueuedAt = 2
    /\ queue[1].Attempts = 2
    /\ queue[2].QueuedAt > queue[1].LastAttempt

\* the entry of message m in the retry queue
EntryOf(m) ==
    PendingQueue[CHOOSE i \in DOMAIN PendingQueue : PendingQueue[i].LogMessage = m]

\* C25 as stated: for every entry that is still in the queue after a queue
\* cycle, that cycle advanced the entry's attempts counter and its last_attempt
\* timestamp.
C25_EveryCycleAdvances ==
    [][\A m \in DOMAIN task :
         (WorkerHandles(m) /\ Pending(m)') =>
            /\ EntryOf(m)'.Attempts > EntryOf(m).Attempts
            /\ EntryOf(m)'.LastAttempt > EntryOf(m).LastAttempt]_vars

\* C25, amended: for every entry that is still in the queue after a queue cycle
\* and had an untried sink when the cycle reached it, that cycle advanced the
\* entry's attempts counter by one and its last_attempt timestamp; an entry
\* with no untried sink keeps both.
C25_CycleAdvancesTriedEntries ==
    [][\A m \in DOMAIN task :
         (WorkerHandles(m) /\ Pending(m)') =>
            IF Untried(queue[wIdx]) # {}
            THEN /\ EntryOf(m)'.Attempts = EntryOf(m).Attempts + 1
                 /\ EntryOf(m)'.LastAttempt > EntryOf(m).LastAttempt
            ELSE /\ EntryOf(m)'.Attempts = EntryOf(m).Attempts
                 /\ EntryOf(m)'.LastAttempt = EntryOf(m).LastAttempt]_vars

\* the worker's failed attempt for the only entry is the latest reading of the
\* clock
C25_Witness ==
    /\ wpc = "sleep"
    /\ Len(queue) = 1
    /\ queue[1].Attempts = 2
    /\ queue[1].LastAttempt = clock
    /\ queue[1].LastAttempt > queue[1].QueuedAt

\* C26: distributeLogMessagesParallel returns only after every message of its
\* batch has finished dispatch, that is has succeeded, been marked terminal or
\* been enqueued; for an empty batch it returns at once, with no task started
\* and no slot taken.
C26_SchedulerReturnsAfterBatch ==
    [][\A h \in DOMAIN hdl :
         /\ (hdl[h].pc = "wgWait" /\ hdl'[h].pc = "returned") =>
                \A m \in hdl[h].batch :
                    /\ task[m].pc = "done"
                    /\ task[m].outcome \in {"success", "terminal", "enqueued"}
         /\ ( /\ hdl[h].pc # "wgWait" /\ hdl'[h] # hdl[h]
              /\ hdl'[h].pc = "returned" /\ hdl'[h].status = StatusOK ) =>
                /\ task' = task
                /\ workerPool' = workerPool]_vars

\* the messages that have an entry in the retry queue
QueuedMessages == {PendingQueue[i].LogMessage : i \in DOMAIN PendingQueue}

\* the in-line dispatch of the task ended by leaving the retry loop: the loop
\* counter passed retry_count, and every pass made a POST that failed retryably
Exhausted(t) ==
    /\ t.outcome = "enqueued"
    /\ t.attempt > t.analyzer.RetryCount
    /\ t.posts = t.attempt
    /\ t.nretry = t.posts
    /\ t.enq = <<t.analyzer.ID>>

\* C27: only the in-line dispatcher adds entries to the retry queue: a queue
\* cycle never adds an entry and never increases the queue length, and every
\* entry was put there by enqueueFailedMessage called from distributeLogMessage
\* after retry exhaustion.
C27_OnlyDispatcherEnqueues ==
    [][/\ \A m \in QueuedMessages' : Exhausted(task'[m])
       /\ \A m \in QueuedMessages' \ QueuedMessages :
             /\ task[m].pc = "enqueue"
             /\ task'[m].pc = "done"
             /\ PendingQueue' = Append(PendingQueue, EntryOf(m)')
             /\ wpc = "sleep" /\ wpc' = "sleep"
       /\ Len(PendingQueue') > Len(PendingQueue) => QueuedMessages' # QueuedMessages
       /\ (wpc = "cycle" \/ wpc' = "cycle") =>
             /\ QueuedMessages' \subseteq QueuedMessages
             /\ Len(PendingQueue') <= Len(PendingQueue)
             /\ Len(queue') <= Len(queue)]_vars

\* an entry enqueued after two failed POSTs to a sink with retry_count 1, kept
\* by a queue cycle
C27_Witness ==
    /\ wpc = "sleep"
    /\ Len(queue) = 1
    /\ task[queue[1].LogMessage].posts = 2
    /\ task[queue[1].LogMessage].analyzer.RetryCount = 1
    /\ queue[1].Attempts = 2

\* C28: every read and write of the retry queue (enqueue, queue cycle, GET
\* /queue) happens while holding d.queueMu, and the worker holds it from the
\* start of a non-empty cycle until the new buffer has replaced the old one,
\* so no enqueue and no /queue read happens inside a cycle.
C28_QueueMutualExclusion ==
    [][/\ (wpc = "cycle") <=> (queueMu = "worker")
       /\ wpc = "cycle" =>
             /\ ~ENABLED handleQueueStatus
             /\ \A m \in DOMAIN task : ~ENABLED Enqueue(m)
             /\ qstat' = qstat
             /\ \A m \in DOMAIN task : task[m].pc = "enqueue" => task'[m].pc = "enqueue"
             /\ (queue' # queue \/ newQueue' # newQueue) => wIdx' # wIdx
             /\ queueMu' = "free" => (wIdx = Len(queue) /\ queue' = NewBuffer')
       /\ (wpc = "sleep" /\ wpc' = "cycle") =>
             (queueMu = "free" /\ queue # <<>> /\ queue' = queue)
       /\ (wpc = "sleep" /\ (queue' # queue \/ qstat' # qstat)) =>
             (queueMu = "free" /\ queueMu' = "free")]_vars

\* a dispatch task waits to enqueue its message while the worker is inside a
\* cycle, after GET /queue was served
C28_Witness ==
    /\ wpc = "cycle"
    /\ queueMu = "worker"
    /\ \E m \in DOMAIN task : task[m].pc = "enqueue"
    /\ qstat.queue_size = 1

\* dispatch tasks inside the retry loop: the tasks that can have a POST
\* outstanding
InlinePosting == {m \in DOMAIN task : task[m].pc = "attempt"}

\* POSTs of the queue worker that can be outstanding: one while it handles an
\* entry that has an untried sink
WorkerPosting == IF wpc = "cycle" /\ Untried(queue[wIdx]) # {} THEN 1 ELSE 0

\* C29: the queue worker is not gated by the dispatch semaphore and has at most
\* one POST outstanding, so the number of outstanding sink POSTs is at most
\* maxWorkers + 1.
C29_OutstandingPostsBound ==
    /\ Cardinality(InlinePosting) + WorkerPosting <= maxWorkers + 1
    /\ Cardinality(InlinePosting) <= workerPool
    /\ workerPool <= maxWorkers
    /\ wpc = "sleep" => ENABLED WorkerLock
    /\ wpc = "cycle" => ENABLED WorkerEntry

\* every slot is taken by a task in its retry loop, another task waits for a
\* slot, and the worker is about to POST a queued message
C29_Witness ==
    /\ Cardinality(InlinePosting) = maxWorkers
    /\ workerPool = maxWorkers
    /\ \E m \in DOMAIN task : task[m].pc = "acquire"
    /\ WorkerPosting = 1

\* the entries of q are in non-decreasing QueuedAt order
ByQueuedAt(q) == \A i, j \in DOMAIN q : i < j => q[i].QueuedAt <= q[j].QueuedAt

\* the messages of the entries of q, in the order of q
MessagesOf(q) == [i \in DOMAIN q |-> q[i].LogMessage]

\* C30: a queue cycle visits the entries from front to back and keeps the
\* relative order of the entries it retains, and new entries are appended at
\* the back, so the entries are always in non-decreasing queued_at order and
\* the front entry is the oldest one.
C30_QueueOrder ==
    [][/\ ByQueuedAt(queue') /\ ByQueuedAt(newQueue') /\ ByQueuedAt(PendingQueue')
       /\ \A i \in DOMAIN queue' : queue'[1].QueuedAt <= queue'[i].QueuedAt
       /\ (wpc = "sleep" /\ wpc' = "cycle") => (wIdx' = 1 /\ newQueue' = <<>>)
       /\ (wpc = "cycle" /\ wIdx' # wIdx) =>
             /\ wIdx' = wIdx + 1 \/ (wIdx = Len(queue) /\ wpc' = "sleep")
             /\ MessagesOf(NewBuffer') \in
                    {MessagesOf(newQueue),
                     Append(MessagesOf(newQueue), queue[wIdx].LogMessage)}
       /\ Len(PendingQueue') > Len(PendingQueue) =>
             /\ SubSeq(queue', 1, Len(queue)) = queue
             /\ Len(queue') = Len(queue) + 1
             /\ \A i \in DOMAIN queue : queue[i].QueuedAt < queue'[Len(queue')].QueuedAt]_vars

\* two entries, both kept by a queue cycle after a failed attempt, with the
\* older one in front
C30_Witness ==
    /\ wpc = "sleep"
    /\ Len(queue) = 2
    /\ queue[1].Attempts = 2 /\ queue[2].Attempts = 2
    /\ queue[1].LogMessage = 1 /\ queue[2].LogMessage = 2
    /\ queue[1].QueuedAt < queue[2].QueuedAt

\* the sum of the weights of the first k analyzers of as
PrefixWeight(as, k) == SumWeights(SubSeq(as, 1, k))

\* the first analyzer of as, in the order of as, whose running weight sum is at
\* least the draw r (in units of 1/DrawScale)
FirstReaching(as, r) ==
    as[CHOOSE k \in DOMAIN as :
          /\ DrawScale * PrefixWeight(as, k) >= r
          /\ \A j \in 1..(k - 1) : DrawScale * PrefixWeight(as, j) < r]

\* C31: for a draw r in [0, total weight of the candidates) the selector returns
\* the first candidate in configuration order whose running weight sum is at
\* least r; the result is a member of the candidate set, a single candidate is
\* returned for every r, and an empty candidate set (queue case) yields the
\* sentinel with the empty id.
C31_SelectorWalk ==
    /\ \A r \in Draws(config) :
          /\ selectAnalyzer(r) = FirstReaching(config, r)
          /\ \E i \in DOMAIN config : selectAnalyzer(r) = config[i]
    /\ \A T \in SUBSET AllIds :
          LET cands == {config[i] : i \in {j \in DOMAIN config : config[j].ID \notin T}}
          IN  IF cands = {}
              THEN selectAlternativeAnalyzer(T, 0).ID = ""
              ELSE \A r \in 0..(DrawScale * SumWeights(Candidates(T)) - 1) :
                     /\ selectAlternativeAnalyzer(T, r) = FirstReaching(Candidates(T), r)
                     /\ selectAlternativeAnalyzer(T, r) \in cands
                     /\ Cardinality(cands) = 1 =>
                            {selectAlternativeAnalyzer(T, r)} = cands

\* B was selected in line on a draw past the weight of A, the worker then
\* selected C among {A, C} and A as the single candidate left, and finds no
\* candidate now
C31_Witness ==
    /\ \E m \in DOMAIN task :
          /\ task[m].analyzer.ID = "B"
          /\ task[m].qposts = <<"C", "A">>
          /\ Pending(m)
    /\ selectAnalyzer(DrawScale * config[1].Weight + 1) = config[2]
    /\ selectAlternativeAnalyzer({"B"}, DrawScale * config[1].Weight + 1) = config[3]
    /\ selectAlternativeAnalyzer({"B", "C"}, 0) = config[1]
    /\ selectAlternativeAnalyzer(AllIds, 0) = NoAnalyzer

\* C32: when all slots are held, further dispatch tasks wait for a slot, and
\* under fair scheduling every waiting task eventually gets a slot and finishes
\* its dispatch, even while one sink fails on every attempt; the messages are
\* then routed to the healthy sink and delivered.
C32_BackpressureWithoutStarvation ==
    /\ [](\A m \in DOMAIN task :
            (workerPool = maxWorkers /\ task[m].pc = "acquire") =>
                ~ENABLED AcquireSlot(m))
    /\ (\E m \in DOMAIN task : task[m].pc = "acquire")
          ~> (\A m \in DOMAIN task :
                 task[m].pc = "done" /\ task[m].outcome = "enqueued")
    /\ (\E m \in DOMAIN task : task[m].pc = "acquire")
          ~> (\A m \in DOMAIN task :
                 task[m].qposts = <<"B">> /\ task[m].qok = 1 /\ ~Pending(m))

\* every slot is held by a task whose POSTs to A have failed so far or are
\* about to, and the last task of the packet waits for a slot
C32_Witness ==
    /\ workerPool = maxWorkers
    /\ Len(task) = PoolMsgs
    /\ task[PoolMsgs].pc = "acquire"
    /\ \A m \in 1..maxWorkers :
          task[m].pc \in {"attempt", "enqueue"} /\ task[m].analyzer.ID = "A"
    /\ \E m \in 1..maxWorkers : task[m].posts = 2 /\ task[m].last = NetErr

\* C33: for every queued entry attempts equals the number of sink ids in
\* tried_sinks (1 at enqueue, both grow by one on each failed queue attempt),
\* and therefore attempts never exceeds the number of configured sinks.
C33_AttemptsCountTriedSinks ==
    \A i \in DOMAIN PendingQueue :
        /\ PendingQueue[i].Attempts = Cardinality(PendingQueue[i].TriedAnalyzers)
        /\ PendingQueue[i].Attempts >= 1
        /\ PendingQueue[i].Attempts <= Cardinality(AllIds)

\* an entry that has failed on each of the three sinks
C33_Witness ==
    \E i \in DOMAIN PendingQueue :
        /\ PendingQueue[i].Attempts = 3
        /\ PendingQueue[i].TriedAnalyzers = {"A", "B", "C"}

\* C34: over the whole lifetime of a queued message the queue worker makes at
\* most N - 1 delivery attempts for it, N being the number of distinct
\* configured sink ids, never two to the same sink and none to the sink that
\* failed in line; after N - 1 failures no further attempt is made.
C34_BoundedQueueAttempts ==
    [][\A m \in DOMAIN task' :
         LET posts == task'[m].qposts
         IN  /\ Len(posts) <= Cardinality(AllIds) - 1
             /\ \A i, j \in DOMAIN posts : posts[i] = posts[j] => i = j
             /\ \A i \in DOMAIN posts :
                    posts[i] \in AllIds /\ <<posts[i]>> # task'[m].enq
             /\ (m \in DOMAIN task /\ Len(task[m].qposts) = Cardinality(AllIds) - 1)
                    => posts = task[m].qposts]_vars

\* a message that failed on B in line and on A and C in the queue is handled
\* by a further cycle
C34_Witness ==
    /\ wpc = "cycle"
    /\ task[queue[wIdx].LogMessage].enq = <<"B">>
    /\ Len(task[queue[wIdx].LogMessage].qposts) = 2
    /\ task[queue[wIdx].LogMessage].qok = 0
    /\ queue[wIdx].Attempts = 3

\* C35: no enqueue is lost to the buffer replacement at the end of a cycle:
\* for every interleaving of enqueueFailedMessage with the queue worker, every
\* message enqueued is in the queue until the worker gets 200 OK for it; an
\* enqueue requested while a cycle runs takes place after the cycle.
C35_NoEnqueueLost ==
    [][\A m \in DOMAIN task' :
         /\ task'[m].outcome = "enqueued" => (Pending(m)' \/ task'[m].qok = 1)
         /\ (wpc' = "sleep" /\ task'[m].outcome = "enqueued" /\ task'[m].qok = 0)
                => InQueue(m)'
         /\ (m \in DOMAIN task /\ task[m].pc = "enqueue" /\ task'[m].pc = "done")
                => /\ wpc = "sleep"
                   /\ queue'[Len(queue')].LogMessage = m
                   /\ SubSeq(queue', 1, Len(queue') - 1) = queue]_vars

\* the second message waits to be enqueued while a cycle over the first one
\* is running
C35_Witness ==
    /\ wpc = "cycle"
    /\ Len(queue) = 1
    /\ queue[1].LogMessage = 1
    /\ Len(task) = 2
    /\ task[2].pc = "enqueue"

\* dispatch tasks parked on the semaphore
WaitingForSlot == {m \in DOMAIN task : task[m].pc = "acquire" /\ ~SlotFree}

\* dispatch tasks parked on d.queueMu
WaitingForMutex == {m \in DOMAIN task : task[m].pc = "enqueue" /\ queueMu # "free"}

\* C36: the system is deadlock-free: dispatch tasks hold a worker slot and then
\* take the queue mutex, the queue worker and GET /queue take only the queue
\* mutex, so in no reachable state is every task blocked for ever on a slot or
\* on the mutex: the mutex is held only by the worker inside a cycle, whose
\* next step never waits, and while a task waits for a slot some holder of a
\* slot can go on, at once or once the cycle has ended.
C36_DeadlockFree ==
    /\ (queueMu # "free") <=> (wpc = "cycle")
    /\ wpc = "cycle" => ENABLED WorkerEntry
    /\ wpc = "sleep" => ENABLED handleQueueStatus
    /\ workerPool = Cardinality(Holding)
    /\ \A m \in Holding :
          \/ ENABLED Attempt(m)
          \/ ENABLED Enqueue(m)
          \/ m \in WaitingForMutex /\ ENABLED WorkerEntry
    /\ \A m \in DOMAIN task :
          task[m].pc = "acquire" => (ENABLED AcquireSlot(m) \/ m \in WaitingForSlot)
    /\ WaitingForSlot # {} => Holding # {}

\* every slot is held by a task parked on the mutex during a cycle over the
\* first message, while the last task of the packet is parked on the semaphore
C36_Witness ==
    /\ wpc = "cycle"
    /\ Cardinality(WaitingForMutex) = maxWorkers
    /\ WaitingForSlot # {}

\* C37: every sink id in a queued message's tried_sinks has been sent at least
\* one POST of that message that did not return 200 OK; in particular a message
\* is enqueued only after at least one failed attempt to the recorded sink, for
\* every retry_count that loadConfig accepts.
C37_TriedSinksWerePosted ==
    \A i \in DOMAIN PendingQueue :
        LET m == PendingQueue[i].LogMessage
            posted == task[m].psinks \cup {task[m].qposts[j] : j \in DOMAIN task[m].qposts}
        IN  /\ task[m].qok = 0 /\ task[m].last # Resp(StatusOK)
            /\ PendingQueue[i].TriedAnalyzers \subseteq posted
            /\ task[m].posts >= 1

\* the 200 OK answers the distributor has had for the message of task t
Count200(t) == (IF t.last = Resp(StatusOK) THEN 1 ELSE 0) + t.qok

\* C38: for each ingested message the distributor observes at most one 200 OK:
\* after a sink answers 200 to an in-line attempt or to a queue attempt, no
\* further POST of that message is made and the message is not in the queue
\* (the queue the worker is rebuilding while it holds the mutex included).
C38_AtMostOne200 ==
    [][\A m \in DOMAIN task :
         /\ Count200(task'[m]) <= 1
         /\ Count200(task[m]) = 1 =>
                /\ task[m].pc = "done"
                /\ task'[m].posts = task[m].posts
                /\ task'[m].qposts = task[m].qposts
                /\ ~Pending(m) /\ ~Pending(m)'
                /\ Count200(task'[m]) = 1]_vars

\* a message delivered by the queue worker after its in-line dispatch failed,
\* with the sinks healthy and the worker awake again
C38_Witness ==
    /\ wpc = "sleep"
    /\ queue = <<>>
    /\ \A s \in DOMAIN sinkUp : sinkUp[s]
    /\ \E m \in DOMAIN task :
          /\ task[m].outcome = "enqueued"
          /\ task[m].posts >= 1
          /\ Count200(task[m]) = 1

\* the entries of the sequence q that carry message m
EntriesFor(q, m) == {i \in DOMAIN q : q[i].LogMessage = m}

\* C39: each ingested message is enqueued at most once: the retry queue never
\* holds two entries created for the same ingestion of a message, and a message
\* that ended in-line dispatch by success or by terminal 4xx never appears in
\* the queue.
C39_EnqueuedAtMostOnce ==
    \A m \in DOMAIN task :
        /\ Len(task[m].enq) <= 1
        /\ Cardinality(EntriesFor(queue, m)) <= 1
        /\ Cardinality(EntriesFor(PendingQueue, m)) <= 1
        /\ task[m].outcome \in {"success", "terminal"} =>
               /\ task[m].enq = <<>>
               /\ EntriesFor(queue, m) = {}
               /\ EntriesFor(PendingQueue, m) = {}
        /\ (task[m].enq = <<>> /\ task[m].pc = "done") => EntriesFor(queue, m) = {}

\* a message enqueued once, tried again by the worker without success and put
\* back: still one entry
C39_Witness ==
    /\ wpc = "sleep"
    /\ \E m \in DOMAIN task :
          /\ task[m].enq # <<>>
          /\ task[m].qposts # <<>>
          /\ Cardinality(EntriesFor(queue, m)) = 1
          /\ queue[1].Attempts >= 2

====
